---------------------------- MODULE Spec2Model ----------------------------
(***************************************************************************)
(* Model of etrade_report_analyzer.py: the exchange-rate cache             *)
(* (get_exchange_trade), the normaliser (read_csv), the computation        *)
(* (parse_data), the sell-to-cover filter of main and the grouping and     *)
(* totalling of generate_pretty_table_with_hierarchy.                      *)
(*                                                                         *)
(* Python values are tagged tuples, the tag first, so that values of       *)
(* different Python types can be compared: <<"None">>, <<"num", n>>,       *)
(* <<"str", s>>, <<"bool", b>>, <<"date", y, m, d>>, <<"NaT">>,            *)
(* <<"dict", f>>, <<"list">>.  Python dicts are functions whose DOMAIN is  *)
(* the key set.  Floats are modelled by integers counting thousandths.     *)
(***************************************************************************)
EXTENDS Integers, Sequences, FiniteSets, TLC

VARIABLES
    EXCHANGE_CACHE,  \* the module-level list of cached API responses (line 10)
    calls,           \* number of get_exchange_trade calls made so far
    fetches,         \* per requested date: number of requests.get calls issued
    first,           \* per requested date: outcome of the first lookup of that date
    last,            \* outcome of the most recent get_exchange_trade call
    pc,              \* position of main
    args,            \* parsed command line: selltocover, year, include_exchange
    raw,             \* the rows of the input file
    return_list,     \* read_csv's result
    parsed_data,     \* parse_data's list, one dict per processed entry
    new_data,        \* the list handed to the grouping, mutated in place by it
    given,           \* new_data as it was when the grouping was called
    tables,          \* the tables returned by generate_pretty_table_with_hierarchy
    exc              \* the exception that ended the run, or "none"

vars == <<EXCHANGE_CACHE, calls, fetches, first, last, pc, args, raw, return_list,
          parsed_data, new_data, given, tables, exc>>

rateVars == <<EXCHANGE_CACHE, calls, fetches, first, last>>
mainVars == <<pc, args, raw, return_list, parsed_data, new_data, given, tables, exc>>

---------------------------------------------------------------------------
(* Python values *)

None == <<"None">>
NaT == <<"NaT">>
IntV(n) == <<"int", n>>
FloatV(n) == <<"float", n>>
NaN == <<"nan">>
Str(s) == <<"str", s>>
Bool(b) == <<"bool", b>>
Date(y, m, d) == <<"date", y, m, d>>
Dict(f) == <<"dict", f>>
NotADict == <<"list">>

IsNone(v) == v[1] = "None"
IsDict(v) == v[1] = "dict"
IsDate(v) == v[1] = "date"

\* dict.get(key) with the default None / with a default
Get(d, k) == IF k \in DOMAIN d THEN d[k] ELSE None
GetD(d, k, dflt) == IF k \in DOMAIN d THEN d[k] ELSE dflt

\* Python truthiness of the values that are tested in the code
Truthy(v) ==
    CASE v[1] = "None" -> FALSE
      [] v[1] \in {"int", "float"} -> v[2] # 0
      [] v[1] = "str" -> v[2] # ""
      [] v[1] = "bool" -> v[2]
      [] OTHER -> TRUE

---------------------------------------------------------------------------
(* Bounds *)

MaxCalls == 3     \* get_exchange_trade calls in one run of SpecRate
MaxRows == 2      \* rows of the input file in SpecMain
MaxItems == 3     \* records handed to the grouping in SpecRender

---------------------------------------------------------------------------
(* The exchange-rate cache: get_exchange_trade, lines 16-34 *)

\* date strings as strftime("%Y-%m-%d") writes them
strftime_Ymd(dt) == <<dt[2], "-", dt[3], "-", dt[4]>>

RateDates == { <<2022, "-", 3, "-", 7>>, <<2023, "-", 1, "-", 15>> }

\* rates mappings of a response: currency code -> float
RatesEUR == [c \in {"EUR"} |-> FloatV(2000)]
RatesEURGBP == [c \in {"EUR", "GBP"} |-> IF c = "EUR" THEN FloatV(3000) ELSE FloatV(0)]

\* the values the "rates" member of a response body can have
RatesPayloads == { Dict(RatesEUR), Dict(RatesEURGBP), NotADict }

\* a response of the rate service: a status code and the decoded JSON body
Response(status, date, rates) ==
    [status_code |-> status,
     content |-> [k \in {"date", "rates"} |-> IF k = "date" THEN date ELSE rates]]

HTTP_OK == 200

\* a non-success status carries no usable body
FailedResponses == { Response(404, None, None) }

Responses ==
    { Response(HTTP_OK, d, r) : d \in RateDates, r \in RatesPayloads }
        \cup FailedResponses

\* lines 20-24, from entry i on: the loop does not break, so the last entry
\* of the date wins
RECURSIVE CacheLookup(_, _, _, _)
CacheLookup(cache, date, i, rates) ==
    IF i > Len(cache) THEN rates
    ELSE CacheLookup(cache, date, i + 1,
                     IF Get(cache[i], "date") = date THEN Get(cache[i], "rates")
                     ELSE rates)

\* rates.get(return_currency) on line 33; None has no attribute get
RatesGet(rates, return_currency) ==
    IF IsDict(rates)
    THEN [ret |-> IF return_currency[2] \in DOMAIN rates[2]
                  THEN rates[2][return_currency[2]] ELSE None,
          exc |-> "none"]
    ELSE [ret |-> None, exc |-> "AttributeError"]

\* get_exchange_trade with a wrong early append: the response is cached before
\* the assertion and whatever the status is
get_exchange_trade_CacheBeforeCheck(cache, date, return_currency, resp) ==
    LET cached == CacheLookup(cache, date, 1, None)
        miss == IsNone(cached)
        api_return == resp.content
        rates == IF miss THEN Get(api_return, "rates") ELSE cached
        out == IF Truthy(return_currency) THEN RatesGet(rates, return_currency)
               ELSE [ret |-> rates, exc |-> "none"]
    IN  [cache |-> IF miss THEN Append(cache, api_return) ELSE cache,
         fetched |-> miss, hit |-> ~miss, rates |-> rates,
         ret |-> out.ret, exc |-> out.exc]

\* get_exchange_trade, lines 16-34.  resp is what requests.get answers if it is
\* called.  The result carries the new cache, the returned value, the exception
\* raised ("none" if the call returns) and whether requests.get was called.
get_exchange_trade(cache, date, return_currency, resp) ==
    LET cached == CacheLookup(cache, date, 1, None)
        miss == IsNone(cached)                        \* line 25
        ok == miss /\ resp.status_code = HTTP_OK      \* line 27
        api_return == resp.content
        fetched_rates == Get(api_return, "rates")     \* line 29
        assertion == ok /\ ~IsDict(fetched_rates)     \* line 30 fails
        rates == IF ~miss THEN cached
                 ELSE IF ok THEN fetched_rates ELSE None
        out == IF Truthy(return_currency) THEN RatesGet(rates, return_currency)
               ELSE [ret |-> rates, exc |-> "none"]
    IN  IF assertion
        THEN [cache |-> cache, fetched |-> TRUE, hit |-> FALSE, rates |-> None,
              ret |-> None, exc |-> "AssertionError"]
        ELSE [cache |-> IF ok THEN Append(cache, api_return) ELSE cache,  \* line 31
              fetched |-> miss, hit |-> ~miss, rates |-> rates,
              ret |-> out.ret, exc |-> out.exc]

ReturnCurrencies == { None, Str("EUR"), Str("GBP") }

NoCall == [date |-> None, return_currency |-> None, status_code |-> 0,
           fetched |-> FALSE, hit |-> FALSE, rates |-> None, ret |-> None,
           exc |-> "none"]

CallRecord(date, return_currency, resp, r) ==
    [date |-> date, return_currency |-> return_currency,
     status_code |-> IF r.fetched THEN resp.status_code ELSE 0,
     fetched |-> r.fetched, hit |-> r.hit, rates |-> r.rates, ret |-> r.ret,
     exc |-> r.exc]

\* bookkeeping of one call: the cache, the fetch counters, the first and the
\* last outcome per date
RateEffect(date, return_currency, resp, r) ==
    /\ EXCHANGE_CACHE' = r.cache
    /\ calls' = calls + 1
    /\ fetches' = [fetches EXCEPT ![date] = @ + (IF r.fetched THEN 1 ELSE 0)]
    /\ last' = CallRecord(date, return_currency, resp, r)
    /\ first' = IF first[date] = NoCall
                THEN [first EXCEPT ![date] = CallRecord(date, return_currency, resp, r)]
                ELSE first

\* one call of get_exchange_trade by an arbitrary caller
Lookup ==
    /\ calls < MaxCalls
    /\ \E date \in RateDates, return_currency \in ReturnCurrencies, resp \in Responses :
           RateEffect(date, return_currency, resp,
                      get_exchange_trade(EXCHANGE_CACHE, date, return_currency, resp))
    /\ UNCHANGED mainVars

RateInit ==
    /\ EXCHANGE_CACHE = <<>>
    /\ calls = 0
    /\ fetches = [d \in RateDates |-> 0]
    /\ first = [d \in RateDates |-> NoCall]
    /\ last = NoCall

MainIdle ==
    /\ pc = "idle"
    /\ args = None
    /\ raw = <<>>
    /\ return_list = <<>>
    /\ parsed_data = <<>>
    /\ new_data = <<>>
    /\ given = <<>>
    /\ tables = <<>>
    /\ exc = "none"

InitRate == RateInit /\ MainIdle

SpecRate == InitRate /\ [][Lookup]_vars

---------------------------------------------------------------------------
(* Numbers, strings and formatting *)

IsNumber(v) == v[1] \in {"int", "float", "nan", "bool"}    \* isinstance(x, (int, float))
IsFloat(v) == v[1] \in {"float", "nan"}                    \* isinstance(x, float)

\* the value of a number in thousandths (True is 1, False is 0)
Thousandths(v) ==
    CASE v[1] = "int" -> v[2] * 1000
      [] v[1] = "float" -> v[2]
      [] v[1] = "bool" -> IF v[2] THEN 1000 ELSE 0

\* Python's +, - and * on int and float operands
PyAdd(a, b) ==
    IF a[1] = "nan" \/ b[1] = "nan" THEN NaN
    ELSE IF IsFloat(a) \/ IsFloat(b) THEN FloatV(Thousandths(a) + Thousandths(b))
    ELSE IntV((Thousandths(a) + Thousandths(b)) \div 1000)

PySub(a, b) ==
    IF a[1] = "nan" \/ b[1] = "nan" THEN NaN
    ELSE IF IsFloat(a) \/ IsFloat(b) THEN FloatV(Thousandths(a) - Thousandths(b))
    ELSE IntV((Thousandths(a) - Thousandths(b)) \div 1000)

PyMul(a, b) ==
    IF a[1] = "nan" \/ b[1] = "nan" THEN NaN
    ELSE IF IsFloat(a) \/ IsFloat(b)
         THEN FloatV((Thousandths(a) * Thousandths(b)) \div 1000)
    ELSE IntV((Thousandths(a) * Thousandths(b)) \div 1000000)

\* strings that are searched are sequences of characters
Chars(seq) == <<"chars", seq>>

\* str(value): a string stays itself, a number becomes its digits
Py_str(v) ==
    CASE v[1] \in {"str", "chars", "digits", "display", "currency"} -> v
      [] v[1] = "int" -> <<"digits", v[2]>>
      [] OTHER -> <<"repr", v>>

\* the text of a string value, as a sequence of characters where it is searched
TextOf(v) == IF v[1] = "chars" THEN v[2] ELSE <<>>

\* sub in s (line 102)
Contains(sub, s) ==
    \E i \in 1..(Len(s) - Len(sub) + 1) : SubSeq(s, i, i + Len(sub) - 1) = sub

\* rounding of thousandths to hundredths, ties to even
RoundCents(n) ==
    LET q == n \div 10
        r == n % 10
    IN  IF r < 5 THEN q
        ELSE IF r > 5 THEN q + 1
        ELSE IF q % 2 = 0 THEN q ELSE q + 1

\* format_value, lines 37-41: locale.currency writes a float with two decimals
format_value(value) ==
    IF value[1] = "float" THEN <<"currency", RoundCents(value[2])>>
    ELSE IF value[1] = "nan" THEN <<"currency_nan">>
    ELSE Py_str(value)

---------------------------------------------------------------------------
(* read_csv, lines 44-106 *)

\* pd.to_datetime(format="%m/%d/%Y", errors="coerce") on the text m/d/Y
DaysIn(m, y) ==
    IF m \in {4, 6, 9, 11} THEN 30
    ELSE IF m = 2 THEN (IF y % 4 = 0 /\ (y % 100 # 0 \/ y % 400 = 0) THEN 29 ELSE 28)
    ELSE 31

to_datetime(cell) ==
    IF cell[1] = "mdY" /\ cell[2] \in 1..12 /\ cell[3] \in 1..DaysIn(cell[2], cell[4])
    THEN Date(cell[4], cell[2], cell[3])
    ELSE NaT

\* lines 74-85: a cell with a currency sign <<"money", n>> or a float becomes a
\* float, an empty cell becomes 0.0
CleanNumber(cell) ==
    CASE cell[1] = "money" -> FloatV(cell[2])
      [] cell[1] = "float" -> cell
      [] cell[1] = "int" -> FloatV(cell[2] * 1000)
      [] OTHER -> FloatV(0)

STC == <<"S", "T", "C">>

\* lines 91-104: the dict built for one row
NormalizeRow(row) ==
    [k \in {"OrderNumber", "SaleDate", "OrderType", "PlanType", "SharesSold",
            "AdjustedCostPerShare", "GainLossPerShare", "PurchasePrice",
            "is_selltocover"} |->
        CASE k = "OrderNumber" -> Py_str(row["Order Number"])
          [] k = "SaleDate" -> to_datetime(row["Date Sold"])
          [] k = "OrderType" -> row["Order Type"]
          [] k = "PlanType" -> row["Plan Type"]
          [] k = "SharesSold" -> row["Qty."]
          [] k = "AdjustedCostPerShare" -> CleanNumber(row["Adjusted Cost Basis Per Share"])
          [] k = "GainLossPerShare" -> CleanNumber(row["Adjusted Gain/Loss Per Share"])
          [] k = "PurchasePrice" -> row["Purchase Price"]
          [] k = "is_selltocover" -> Bool(Contains(STC, TextOf(row["Order Type"])))]

read_csv(rows) == [i \in 1..Len(rows) |-> NormalizeRow(rows[i])]

---------------------------------------------------------------------------
(* parse_data, lines 209-260 *)

\* the plan type compared in the wrong case
IsESPP_WrongCase(entry) == Get(entry, "PlanType") = Str("espp")

\* line 216
IsESPP(entry) == Get(entry, "PlanType") = Str("ESPP")

\* lines 216-234 and 240-258: the dict built for one entry, given the rate
LineItem(entry, exchange_rate) ==
    LET espp == IsESPP(entry)
        purchase_price_per_share ==
            IF ~espp THEN GetD(entry, "AdjustedCostPerShare", FloatV(0))
            ELSE GetD(entry, "PurchasePrice", FloatV(0))
        sell_price_per_share ==
            IF ~espp
            THEN PyAdd(entry["AdjustedCostPerShare"], GetD(entry, "GainLossPerShare", FloatV(0)))
            ELSE GetD(entry, "AdjustedCostPerShare", FloatV(0))
        gainloss_per_share ==
            IF ~espp THEN GetD(entry, "GainLossPerShare", FloatV(0))
            ELSE PySub(sell_price_per_share, purchase_price_per_share)
        total_value == PyMul(sell_price_per_share, GetD(entry, "SharesSold", IntV(0)))
        kapitalertrag_usd == PyMul(gainloss_per_share, GetD(entry, "SharesSold", IntV(0)))
        kapitalertrag_eur ==
            IF Truthy(exchange_rate) THEN PyMul(kapitalertrag_usd, exchange_rate)
            ELSE Str("n/a")
        keys == {"Order", "Verkaufsdatum", "Type", "PlanType", "Anz.", "Kaufwert",
                 "Gewinn/Verlust", "Verkaufswert", "Orderwert", "KapitalErtrag (USD)",
                 "KapitalErtrag (EUR)", "is_selltocover"}
                    \cup (IF espp THEN {"Rabatt (inkl.)"} ELSE {})
    IN  [k \in keys |->
            CASE k = "Order" -> Py_str(Get(entry, "OrderNumber"))
              [] k = "Verkaufsdatum" -> entry["SaleDate"]
              [] k = "Type" -> Get(entry, "OrderType")
              [] k = "PlanType" -> Get(entry, "PlanType")
              [] k = "Anz." -> Get(entry, "SharesSold")
              [] k = "Kaufwert" -> purchase_price_per_share
              [] k = "Gewinn/Verlust" -> gainloss_per_share
              [] k = "Verkaufswert" -> sell_price_per_share
              [] k = "Orderwert" -> total_value
              [] k = "KapitalErtrag (USD)" -> kapitalertrag_usd
              [] k = "KapitalErtrag (EUR)" -> kapitalertrag_eur
              [] k = "is_selltocover" -> GetD(entry, "is_selltocover", Bool(FALSE))
              [] k = "Rabatt (inkl.)" -> Str("15%")]

\* the order in which the keys of a line item were inserted (lines 243-258)
KeyOrder == <<"Order", "Verkaufsdatum", "Type", "PlanType", "Anz.", "Kaufwert",
              "Gewinn/Verlust", "Verkaufswert", "Orderwert", "KapitalErtrag (USD)",
              "KapitalErtrag (EUR)", "is_selltocover", "Rabatt (inkl.)">>

---------------------------------------------------------------------------
(* generate_pretty_table_with_hierarchy, lines 109-206 *)

\* strftime("%d.%m.%Y") of a date
strftime_dmY(dt) == <<"display", dt[4], ".", dt[3], ".", dt[2]>>

\* the default arguments, lines 112-119 and 126-127
exclude_fields == {"PurchasePrice", "is_selltocover"}
exclude_total == {"Gewinn/Verlust", "Order", "Verkaufsdatum", "Rabatt (inkl.)", "Type"}

\* lines 143-149: grouped_data is a dict of dicts; a dict is modelled by the
\* sequence of its items in insertion order
AddToPlans(plans, plan_type, entry) ==
    IF \E j \in DOMAIN plans : plans[j].plan_type = plan_type
    THEN [j \in DOMAIN plans |->
             IF plans[j].plan_type = plan_type
             THEN [plans[j] EXCEPT !.records = Append(@, entry)]
             ELSE plans[j]]
    ELSE Append(plans, [plan_type |-> plan_type, records |-> <<entry>>])

\* groups kept flat, one per (year, plan type) in the order the pairs are met
AddToGroups_Flat(grouped, year, plan_type, entry) ==
    IF \E j \in DOMAIN grouped :
           grouped[j].year = year /\ grouped[j].plans[1].plan_type = plan_type
    THEN [j \in DOMAIN grouped |->
             IF grouped[j].year = year /\ grouped[j].plans[1].plan_type = plan_type
             THEN [grouped[j] EXCEPT !.plans = AddToPlans(@, plan_type, entry)]
             ELSE grouped[j]]
    ELSE Append(grouped, [year |-> year, plans |-> AddToPlans(<<>>, plan_type, entry)])

AddToGroups(grouped, year, plan_type, entry) ==
    IF \E j \in DOMAIN grouped : grouped[j].year = year
    THEN [j \in DOMAIN grouped |->
             IF grouped[j].year = year
             THEN [grouped[j] EXCEPT !.plans = AddToPlans(@, plan_type, entry)]
             ELSE grouped[j]]
    ELSE Append(grouped, [year |-> year, plans |-> AddToPlans(<<>>, plan_type, entry)])

\* entry["Verkaufsdatum"].year, line 134: NaT has the year nan
YearOf(v) == IF IsDate(v) THEN IntV(v[2]) ELSE NaN

\* the loop with the date rewritten before the year is compared, so that the
\* records skipped by the filter are rewritten as well
RECURSIVE GroupLoop_RewriteFirst(_, _, _, _)
GroupLoop_RewriteFirst(items, filter_year, i, grouped) ==
    IF i > Len(items) THEN [data |-> items, grouped |-> grouped, exc |-> "none"]
    ELSE LET entry == items[i]
         IN  IF "Verkaufsdatum" \notin DOMAIN entry
             THEN [data |-> items, grouped |-> grouped, exc |-> "KeyError"]
             ELSE IF ~IsDate(entry["Verkaufsdatum"])
             THEN [data |-> items, grouped |-> grouped, exc |-> "ValueError"]
             ELSE LET year == YearOf(entry["Verkaufsdatum"])
                      rewritten == [entry EXCEPT
                                       !["Verkaufsdatum"] = strftime_dmY(@)]
                      items2 == [items EXCEPT ![i] = rewritten]
                  IN  IF Truthy(filter_year) /\ year # filter_year
                      THEN GroupLoop_RewriteFirst(items2, filter_year, i + 1, grouped)
                      ELSE IF "PlanType" \notin DOMAIN entry
                      THEN [data |-> items2, grouped |-> grouped, exc |-> "KeyError"]
                      ELSE GroupLoop_RewriteFirst(items2, filter_year, i + 1,
                                                  AddToGroups(grouped, year,
                                                              entry["PlanType"],
                                                              rewritten))

\* lines 132-149, from entry i on: the list with the dates rewritten so far,
\* the groups, and the exception that ended the loop
RECURSIVE GroupLoop(_, _, _, _)
GroupLoop(items, filter_year, i, grouped) ==
    IF i > Len(items) THEN [data |-> items, grouped |-> grouped, exc |-> "none"]
    ELSE LET entry == items[i]
         IN  IF "Verkaufsdatum" \notin DOMAIN entry                      \* line 134
             THEN [data |-> items, grouped |-> grouped, exc |-> "KeyError"]
             ELSE IF entry["Verkaufsdatum"][1] \notin {"date", "NaT"}
             THEN [data |-> items, grouped |-> grouped, exc |-> "AttributeError"]
             ELSE LET year == YearOf(entry["Verkaufsdatum"])
                      rewritten == [entry EXCEPT
                                       !["Verkaufsdatum"] = strftime_dmY(@)]
                      items2 == [items EXCEPT ![i] = rewritten]
                  IN  IF Truthy(filter_year) /\ year # filter_year       \* lines 135-137
                      THEN GroupLoop(items, filter_year, i + 1, grouped)
                      ELSE IF ~IsDate(entry["Verkaufsdatum"])             \* line 138 on NaT
                      THEN [data |-> items, grouped |-> grouped, exc |-> "ValueError"]
                      ELSE IF "PlanType" \notin DOMAIN entry              \* line 139
                      THEN [data |-> items2, grouped |-> grouped, exc |-> "KeyError"]
                      ELSE GroupLoop(items2, filter_year, i + 1,
                                     AddToGroups(grouped, year, entry["PlanType"],
                                                 rewritten))

\* list(records[0].keys()), line 159
KeysOf(record) == SelectSeq(KeyOrder, LAMBDA k : k \in DOMAIN record)

\* lines 162-166
FieldNames(records) ==
    <<"Year", "PlanType">> \o
        SelectSeq(KeysOf(records[1]),
                  LAMBDA k : k \notin ({"Year", "PlanType"} \cup exclude_fields))

\* sum([x if isinstance(x, (int, float)) else 0 for x in column_values])
RECURSIVE PySum(_, _)
PySum(values, i) ==
    IF i > Len(values) THEN IntV(0)
    ELSE PyAdd(IF IsNumber(values[i]) THEN values[i] ELSE IntV(0), PySum(values, i + 1))

\* a total that adds up the values as they are printed, rounded to cents
ColumnTotal_OfRounded(records, field) ==
    IF field \notin exclude_total
    THEN format_value(PySum([j \in DOMAIN records |->
                                LET x == GetD(records[j], field, IntV(0))
                                IN  IF x[1] = "float" THEN FloatV(RoundCents(x[2]) * 10)
                                    ELSE x], 1))
    ELSE Str("")

\* lines 183-200: the cell of the totals row for one column
ColumnTotal(records, field) ==
    IF field \notin exclude_total
    THEN format_value(PySum([j \in DOMAIN records |-> GetD(records[j], field, IntV(0))], 1))
    ELSE Str("")

\* lines 156-204: the table of one group; rows holds the data rows, the
\* separator row and the totals row
Table(year, plan_type, records) ==
    LET field_names == FieldNames(records)
        rest == SubSeq(field_names, 3, Len(field_names))
        data_rows == [j \in DOMAIN records |->
                         <<year, plan_type>> \o
                             [c \in DOMAIN rest |->
                                 format_value(GetD(records[j], rest[c], Str("")))]]
        separator == [c \in DOMAIN field_names |-> Str("----")]
        total_row == <<Str("Total"), Str("")>> \o
                         [c \in DOMAIN rest |-> ColumnTotal(records, rest[c])]
    IN  [field_names |-> field_names,
         rows |-> data_rows \o <<separator, total_row>>]

\* lines 152-204: the tables in the order of grouped_data.items() and plans.items()
RECURSIVE TablesOfPlans(_, _, _)
TablesOfPlans(year, plans, j) ==
    IF j > Len(plans) THEN <<>>
    ELSE <<Table(year, plans[j].plan_type, plans[j].records)>>
             \o TablesOfPlans(year, plans, j + 1)

RECURSIVE TablesOf(_, _)
TablesOf(grouped, j) ==
    IF j > Len(grouped) THEN <<>>
    ELSE TablesOfPlans(grouped[j].year, grouped[j].plans, 1) \o TablesOf(grouped, j + 1)

\* the whole function: the list as it leaves it, the tables it returns and the
\* exception it raises
generate_pretty_table_with_hierarchy(items, filter_year) ==
    LET g == GroupLoop(items, filter_year, 1, <<>>)
    IN  [data |-> g.data,
         tables |-> IF g.exc = "none" THEN TablesOf(g.grouped, 1) ELSE <<>>,
         exc |-> g.exc]

---------------------------------------------------------------------------
(* main, lines 263-306 *)

SALE == <<"S", "a", "l", "e">>
SALE_TO_COVER == <<"S", "a", "l", "e", " ", "t", "o", " ", "C", "o", "v", "e", "r">>

RawRow(plan, order_type, qty, date_sold, gain, cost, price) ==
    [k \in {"Plan Type", "Order Type", "Qty.", "Date Sold", "Order Number",
            "Adjusted Gain/Loss Per Share", "Adjusted Cost Basis Per Share",
            "Purchase Price"} |->
        CASE k = "Plan Type" -> Str(plan)
          [] k = "Order Type" -> Chars(order_type)
          [] k = "Qty." -> IntV(qty)
          [] k = "Date Sold" -> date_sold
          [] k = "Order Number" -> IntV(0)
          [] k = "Adjusted Gain/Loss Per Share" -> gain
          [] k = "Adjusted Cost Basis Per Share" -> cost
          [] k = "Purchase Price" -> price]

\* the rows an input file is made of; 13/40/2022 is a date that does not parse
RowPool ==
    { RawRow("RSU", SALE, 1, <<"mdY", 3, 7, 2022>>, <<"money", 5000>>, FloatV(20005), NaN),
      RawRow("ESPP", SALE, 2, <<"mdY", 3, 7, 2022>>, NaN, FloatV(20000), FloatV(17000)),
      RawRow("RSU", SALE_TO_COVER, 1, <<"mdY", 1, 15, 2023>>, FloatV(0 - 1000), FloatV(10005), NaN),
      RawRow("RSU", STC, 2, <<"mdY", 3, 7, 2022>>, FloatV(2000), FloatV(8000), NaN),
      RawRow("RSU", SALE, 1, <<"mdY", 13, 40, 2022>>, FloatV(1000), FloatV(5000), NaN) }

\* the files of at most n rows; the order number of a row is its position
RECURSIVE SeqsUpTo(_, _)
SeqsUpTo(S, n) ==
    IF n = 0 THEN { <<>> }
    ELSE LET shorter == SeqsUpTo(S, n - 1)
         IN  shorter \cup { Append(q, x) : q \in { t \in shorter : Len(t) = n - 1 }, x \in S }

Numbered(rows) == [i \in DOMAIN rows |-> [rows[i] EXCEPT !["Order Number"] = IntV(i)]]

FilterYears == {None, IntV(2022), IntV(2023)}

ArgSets == [selltocover : BOOLEAN, year : FilterYears, include_exchange : BOOLEAN]

MainInit ==
    /\ pc = "read_csv"
    /\ args \in ArgSets
    /\ raw \in { Numbered(q) : q \in SeqsUpTo(RowPool, MaxRows) }
    /\ return_list = <<>>
    /\ parsed_data = <<>>
    /\ new_data = <<>>
    /\ given = <<>>
    /\ tables = <<>>
    /\ exc = "none"

\* line 294: read_csv(input_file=args.input_file); parse_data returns at once on
\* an empty list (lines 211-212)
ReadCsv ==
    /\ pc = "read_csv"
    /\ return_list' = read_csv(raw)
    /\ pc' = IF Len(raw) < 1 THEN "filter" ELSE "parse_data"
    /\ UNCHANGED <<args, raw, parsed_data, new_data, given, tables, exc>>
    /\ UNCHANGED rateVars

Raise(e) ==
    /\ pc' = "raised in parse_data"
    /\ exc' = e
    /\ UNCHANGED <<args, raw, return_list, parsed_data, new_data, given, tables>>

Appended(item) ==
    /\ parsed_data' = Append(parsed_data, item)
    /\ pc' = IF Len(parsed_data) + 1 = Len(return_list) THEN "filter" ELSE "parse_data"
    /\ UNCHANGED <<args, raw, return_list, new_data, given, tables, exc>>

\* one pass of the loop of parse_data without conversion (exchange is False)
ParseEntryPlain ==
    /\ pc = "parse_data"
    /\ ~args.include_exchange
    /\ Appended(LineItem(return_list[Len(parsed_data) + 1], None))
    /\ UNCHANGED rateVars

\* one pass of the loop of parse_data with conversion: lines 235-239 format the
\* sale date (NaT.strftime raises ValueError) and ask the cache for the rate
ParseEntryExchange ==
    /\ pc = "parse_data"
    /\ args.include_exchange
    /\ LET entry == return_list[Len(parsed_data) + 1]
       IN  IF ~IsDate(entry["SaleDate"])
           THEN Raise("ValueError") /\ UNCHANGED rateVars
           ELSE \E resp \in Responses :
                   LET date == strftime_Ymd(entry["SaleDate"])
                       r == get_exchange_trade(EXCHANGE_CACHE, date, Str("EUR"), resp)
                   IN  /\ RateEffect(date, Str("EUR"), resp, r)
                       /\ IF r.exc # "none" THEN Raise(r.exc)
                          ELSE Appended(LineItem(entry, r.ret))

\* lines 296-301
KeptByMain(elem) == ~(GetD(elem, "is_selltocover", Bool(FALSE))[2] /\ ~args.selltocover)

MainFilter ==
    /\ pc = "filter"
    /\ new_data' = SelectSeq(parsed_data, KeptByMain)
    /\ given' = new_data'
    /\ pc' = "render"
    /\ UNCHANGED <<args, raw, return_list, parsed_data, tables, exc>>
    /\ UNCHANGED rateVars

\* line 302, and the printing of lines 303-305 when the call returns
Render ==
    /\ pc = "render"
    /\ LET r == generate_pretty_table_with_hierarchy(new_data, args.year)
       IN  /\ new_data' = r.data
           /\ tables' = r.tables
           /\ exc' = r.exc
           /\ pc' = IF r.exc = "none" THEN "done" ELSE "raised in render"
    /\ UNCHANGED <<args, raw, return_list, parsed_data, given>>
    /\ UNCHANGED rateVars

InitMain == RateInit /\ MainInit

NextMain == ReadCsv \/ ParseEntryPlain \/ ParseEntryExchange \/ MainFilter \/ Render

SpecMain == InitMain /\ [][NextMain]_vars

---------------------------------------------------------------------------
(* The grouping called on its own, on lists that need not come from parse_data *)

Without(record, key) == [k \in DOMAIN record \ {key} |-> record[k]]

ItemOf(row, exchange_rate) == LineItem(NormalizeRow(row), exchange_rate)

\* line items of the rows of RowPool, one of them converted as well, and two
\* records that lack a key the grouping reads
ItemPool ==
    { ItemOf(row, None) : row \in RowPool }
        \cup { ItemOf(RawRow("RSU", SALE, 1, <<"mdY", 3, 7, 2022>>, <<"money", 5000>>,
                             FloatV(20005), NaN), FloatV(2000)),
               Without(ItemOf(RawRow("RSU", SALE, 1, <<"mdY", 3, 7, 2022>>, FloatV(5000),
                                     FloatV(20005), NaN), None), "PlanType"),
               Without(ItemOf(RawRow("RSU", SALE, 1, <<"mdY", 1, 15, 2023>>, FloatV(5000),
                                     FloatV(20005), NaN), None), "Verkaufsdatum") }

NumberedItems(items) ==
    [i \in DOMAIN items |-> [items[i] EXCEPT !["Order"] = Py_str(IntV(i))]]

RenderInit ==
    /\ pc = "render"
    /\ args \in [selltocover : {FALSE}, year : FilterYears, include_exchange : {FALSE}]
    /\ raw = <<>>
    /\ return_list = <<>>
    /\ parsed_data = <<>>
    /\ new_data \in { NumberedItems(q) : q \in SeqsUpTo(ItemPool, MaxItems) }
    /\ given = new_data
    /\ tables = <<>>
    /\ exc = "none"

InitRender == RateInit /\ RenderInit

SpecRender == InitRender /\ [][Render]_vars

---------------------------------------------------------------------------
(* Properties of the exchange-rate cache, checked under SpecRate *)

\* C1: two lookups for the same date issue at most one fetch call in total,
\* and a later lookup of a date is answered from the identical rates as the
\* first lookup of that date, also when it asks for another target currency.
\* Stated for the dates whose first lookup fetched successfully and returned
\* (the case the cache exists for; with a failing first fetch the claim fails
\* as well, since failures are not cached).
C1_OneFetchPerDate ==
    \A d \in RateDates :
        (first[d].fetched /\ first[d].status_code = HTTP_OK /\ first[d].exc = "none") =>
            /\ fetches[d] <= 1
            /\ last.date = d =>
                   /\ last.rates = first[d].rates
                   /\ last.return_currency = first[d].return_currency =>
                          last.ret = first[d].ret

\* C10: the cache only grows.  Every step keeps the old entries in place,
\* every cached entry holds a rates mapping, and a cache hit, a failed fetch
\* (non-success status) and a malformed response (the assertion) add nothing.
C10_CacheOnlyGrows ==
    [][ /\ Len(EXCHANGE_CACHE') >= Len(EXCHANGE_CACHE)
        /\ SubSeq(EXCHANGE_CACHE', 1, Len(EXCHANGE_CACHE)) = EXCHANGE_CACHE
        /\ \A i \in DOMAIN EXCHANGE_CACHE' : IsDict(Get(EXCHANGE_CACHE'[i], "rates"))
        /\ ( \/ last'.hit
             \/ (last'.fetched /\ last'.status_code # HTTP_OK)
             \/ last'.exc = "AssertionError" ) => EXCHANGE_CACHE' = EXCHANGE_CACHE
        /\ Len(EXCHANGE_CACHE') <= Len(EXCHANGE_CACHE) + 1 ]_vars

\* a run in which an entry was cached, then hit, and a malformed response for
\* another date was then refused
C10_Witness ==
    /\ Len(EXCHANGE_CACHE) = 1
    /\ calls = 3
    /\ last.exc = "AssertionError"
    /\ \E d \in RateDates : first[d].fetched /\ fetches[d] = 1 /\ d # last.date

---------------------------------------------------------------------------
(* Properties of the whole run, checked under SpecMain *)

\* C2: when the fetch fails with a non-success status the lookup returns None
\* and does not raise, and parse_data with conversion gives the record the
\* value "n/a" and goes on with the other records.
C2_FailedFetchGivesNA ==
    (last.fetched /\ last.status_code # HTTP_OK) =>
        /\ last.exc = "none"
        /\ last.ret = None
        /\ pc # "raised in parse_data"
        /\ pc \in {"parse_data", "filter"} =>
               /\ parsed_data # <<>>
               /\ parsed_data[Len(parsed_data)]["KapitalErtrag (EUR)"] = Str("n/a")

\* C6: a row whose order type is "Sale to Cover" is normalized with
\* is_selltocover true and is left out of the report unless
\* --include-sell-to-cover is given.
C6_SaleToCoverExcluded ==
    /\ \A i \in DOMAIN return_list :
           raw[i]["Order Type"] = Chars(SALE_TO_COVER) =>
               return_list[i]["is_selltocover"] = Bool(TRUE)
    /\ (pc \in {"render", "done", "raised in render"} /\ ~args.selltocover) =>
           \A i \in DOMAIN given : given[i]["Type"] # Chars(SALE_TO_COVER)

\* C7: parse_data never drops a record and does not raise on a record whose
\* sale date is null, with or without conversion: such a record gets a line
\* item with "n/a", and the result has one line item per record, in order.
C7_NullDateKept ==
    /\ pc = "raised in parse_data" =>
           IsDate(return_list[Len(parsed_data) + 1]["SaleDate"])
    /\ pc \in {"filter", "render", "done", "raised in render"} =>
           /\ Len(parsed_data) = Len(return_list)
           /\ \A i \in DOMAIN parsed_data :
                  /\ parsed_data[i]["Order"] = return_list[i]["OrderNumber"]
                  /\ ~IsDate(return_list[i]["SaleDate"]) =>
                         parsed_data[i]["KapitalErtrag (EUR)"] = Str("n/a")

\* C8: the line item of an ESPP record has "Rabatt (inkl.)" = "15%" and the
\* ESPP prices (purchase price, adjusted cost as sale value); the line item of
\* any other record has no such key and the non-ESPP prices.
C8_PlanTypeBranch ==
    \A i \in DOMAIN parsed_data :
        LET entry == return_list[i]
            item == parsed_data[i]
        IN  IF entry["PlanType"] = Str("ESPP")
            THEN /\ "Rabatt (inkl.)" \in DOMAIN item
                 /\ item["Rabatt (inkl.)"] = Str("15%")
                 /\ item["Kaufwert"] = entry["PurchasePrice"]
                 /\ item["Verkaufswert"] = entry["AdjustedCostPerShare"]
            ELSE /\ "Rabatt (inkl.)" \notin DOMAIN item
                 /\ item["Kaufwert"] = entry["AdjustedCostPerShare"]
                 /\ item["Gewinn/Verlust"] = entry["GainLossPerShare"]

\* both branches were taken in one run
C8_Witness ==
    /\ \E i \in DOMAIN parsed_data : return_list[i]["PlanType"] = Str("ESPP")
    /\ \E i \in DOMAIN parsed_data : return_list[i]["PlanType"] = Str("RSU")

\* the data rows of a table: all rows but the separator and the totals row
DataRows(t) == SubSeq(t.rows, 1, Len(t.rows) - 2)

\* the column of a field in a table
ColumnOf(t, field) == CHOOSE c \in DOMAIN t.field_names : t.field_names[c] = field

\* the places (table, row) where the order number of input row i is printed
Occurrences(i) ==
    { tr \in (DOMAIN tables) \X (1..Len(return_list)) :
        /\ tr[2] <= Len(DataRows(tables[tr[1]]))
        /\ tables[tr[1]].rows[tr[2]][ColumnOf(tables[tr[1]], "Order")] = <<"digits", i>> }

\* row i is taken out by the sell-to-cover filter or by --year
FilteredOut(i) ==
    \/ return_list[i]["is_selltocover"][2] /\ ~args.selltocover
    \/ Truthy(args.year) /\ IntV(return_list[i]["SaleDate"][2]) # args.year

\* row i is printed exactly once, in the table of its year and plan type, or
\* nowhere if a filter removes it
PrintedOnce(i) ==
    /\ Cardinality(Occurrences(i)) = IF FilteredOut(i) THEN 0 ELSE 1
    /\ \A tr \in Occurrences(i) :
           /\ tables[tr[1]].rows[tr[2]][1] = IntV(return_list[i]["SaleDate"][2])
           /\ tables[tr[1]].rows[tr[2]][2] = return_list[i]["PlanType"]

\* C4: every input row with a parseable date and a plan type is printed as
\* exactly one data row of exactly one table, the table of its year and plan
\* type, unless the sell-to-cover filter or --year removes it; no row is lost.
\* Stated for the runs that end without one of the fatal conditions of the
\* design (a malformed rate response, a record the grouping cannot group).
C4_EveryRowPrintedOnce ==
    (pc \in {"done", "raised in parse_data"} /\ exc # "AssertionError") =>
        \A i \in DOMAIN return_list :
            IsDate(return_list[i]["SaleDate"]) => PrintedOnce(i)

\* the same for the runs that print their report: there no row is lost or
\* printed twice
C4_ExactlyOneRow ==
    pc = "done" =>
        \A i \in DOMAIN return_list :
            IsDate(return_list[i]["SaleDate"]) => PrintedOnce(i)

---------------------------------------------------------------------------
(* Properties of the grouping, checked under SpecRender *)

Min(S) == CHOOSE x \in S : \A y \in S : x <= y

\* the records of the list that --year lets through
PassesFilter(item) ==
    ~(Truthy(args.year) /\ YearOf(item["Verkaufsdatum"]) # args.year)

Passing == { i \in DOMAIN given : PassesFilter(given[i]) }

\* the (year, plan type) of a record and of a table
PairOf(i) == <<YearOf(given[i]["Verkaufsdatum"]), given[i]["PlanType"]>>
TablePair(t) == <<tables[t].rows[1][1], tables[t].rows[1][2]>>

\* where a pair, and a year, is first met in the list
FirstOfPair(p) == Min({ i \in Passing : PairOf(i) = p })
FirstOfYear(y) == Min({ i \in Passing : PairOf(i)[1] = y })

\* one table per distinct pair
OneTablePerGroup ==
    /\ { TablePair(t) : t \in DOMAIN tables } = { PairOf(i) : i \in Passing }
    /\ Len(tables) = Cardinality({ PairOf(i) : i \in Passing })

\* C3 as claimed: one table per distinct (year, plan type), the tables in the
\* order in which the pairs are first met in the list.
C3_FirstSeenPairOrder ==
    pc = "done" =>
        /\ OneTablePerGroup
        /\ \A a, b \in DOMAIN tables :
               a < b => FirstOfPair(TablePair(a)) < FirstOfPair(TablePair(b))

\* C3 as amended: one table per distinct (year, plan type); the tables are
\* ordered by the position at which their year is first met, and the tables of
\* one year by the position at which their pair is first met.
C3_YearThenPlanOrder ==
    pc = "done" =>
        /\ OneTablePerGroup
        /\ \A a, b \in DOMAIN tables :
               a < b =>
                   \/ FirstOfYear(TablePair(a)[1]) < FirstOfYear(TablePair(b)[1])
                   \/ /\ TablePair(a)[1] = TablePair(b)[1]
                      /\ FirstOfPair(TablePair(a)) < FirstOfPair(TablePair(b))

\* a second plan type of an earlier year came after the first record of a later
\* year, and its table stands before the table of the later year
C3_Witness ==
    /\ pc = "done"
    /\ Len(tables) = 3
    /\ \E a, b \in DOMAIN tables :
           a < b /\ FirstOfPair(TablePair(a)) > FirstOfPair(TablePair(b))

\* the records of the group of table t
Members(t) == { i \in Passing : PairOf(i) = TablePair(t) }

\* the sum of the numeric values of a field over a set of records, in
\* thousandths, and whether one of them is a float
RECURSIVE SumOver(_, _)
SumOver(S, field) ==
    IF S = {} THEN 0
    ELSE LET i == Min(S)
             x == GetD(given[i], field, IntV(0))
         IN  (IF IsNumber(x) THEN Thousandths(x) ELSE 0) + SumOver(S \ {i}, field)

AnyFloat(S, field) == \E i \in S : GetD(given[i], field, IntV(0))[1] = "float"

\* C5: in every table the totals row holds, for each column outside the
\* exclusion set, the sum of the numeric values of that column over exactly
\* the records of the group ("n/a" counting as 0), added up before it is
\* formatted; with --year the records of other years are in no group.
C5_TotalsAreGroupSums ==
    pc = "done" =>
        \A t \in DOMAIN tables :
            /\ Truthy(args.year) => TablePair(t)[1] = args.year
            /\ Len(DataRows(tables[t])) = Cardinality(Members(t))
            /\ \A c \in 3..Len(tables[t].field_names) :
                   LET field == tables[t].field_names[c]
                       total == tables[t].rows[Len(tables[t].rows)][c]
                       sum == SumOver(Members(t), field)
                   IN  IF field \in exclude_total THEN total = Str("")
                       ELSE IF AnyFloat(Members(t), field)
                       THEN total = <<"currency", RoundCents(sum)>>
                       ELSE total = <<"digits", sum \div 1000>>

\* a table of two records whose halves of a cent add up, one of them with
\* "n/a" where the other has a number, with --year keeping a record of
\* another year out
C5_Witness ==
    /\ pc = "done"
    /\ Truthy(args.year)
    /\ \E i \in DOMAIN given : ~PassesFilter(given[i])
    /\ \E t \in DOMAIN tables :
           /\ Cardinality(Members(t)) = 2
           /\ SumOver(Members(t), "Kaufwert") % 10 = 0
           /\ \A i \in Members(t) : Thousandths(given[i]["Kaufwert"]) % 10 = 5
           /\ \E i, j \in Members(t) :
                  /\ given[i]["KapitalErtrag (EUR)"] = Str("n/a")
                  /\ given[j]["KapitalErtrag (EUR)"][1] = "float"

\* the loop reached record i: every record before it was skipped by --year or
\* put in a group
Groupable(item) ==
    /\ "Verkaufsdatum" \in DOMAIN item
    /\ PassesFilter(item) => (IsDate(item["Verkaufsdatum"]) /\ "PlanType" \in DOMAIN item)

Reached(i) == \A j \in 1..(i - 1) : Groupable(given[j])

\* record i was put in a group
Placed(i) ==
    /\ Reached(i)
    /\ Groupable(given[i])
    /\ PassesFilter(given[i])

\* record i with its date replaced by the display string
Displayed(item) ==
    [item EXCEPT !["Verkaufsdatum"] = <<"display", @[4], ".", @[3], ".", @[2]>>]

\* C9 as claimed: the grouping changes the list only by replacing the date of
\* each record it puts in a group by the display string, also when it raises.
C9_OnlyGroupedRewritten ==
    pc \in {"done", "raised in render"} =>
        /\ Len(new_data) = Len(given)
        /\ \A i \in DOMAIN given :
               new_data[i] = IF Placed(i) THEN Displayed(given[i]) ELSE given[i]

\* the record on which the loop stops because it has no PlanType
StoppedAt(i) ==
    /\ Reached(i)
    /\ "Verkaufsdatum" \in DOMAIN given[i]
    /\ PassesFilter(given[i])
    /\ IsDate(given[i]["Verkaufsdatum"])
    /\ "PlanType" \notin DOMAIN given[i]

\* C9 as amended: the grouping changes the list only by replacing the date of
\* each record it puts in a group, and of the record without PlanType on which
\* it raises, by the display string.
C9_GroupedOrStoppedRewritten ==
    pc \in {"done", "raised in render"} =>
        /\ Len(new_data) = Len(given)
        /\ \A i \in DOMAIN given :
               new_data[i] = IF Placed(i) \/ StoppedAt(i)
                             THEN Displayed(given[i]) ELSE given[i]

\* a run that rewrote a record, skipped one by --year and then raised
C9_Witness ==
    /\ pc = "raised in render"
    /\ \E i, j, k \in DOMAIN given :
           /\ i < k /\ j < k
           /\ Placed(i)
           /\ ~PassesFilter(given[j])
           /\ StoppedAt(k)

===========================================================================
